---- MODULE Spec2Model ----
(***************************************************************************)
(* Admission control engine of the DDoS protection service: the rate      *)
(* limiter (core/rate_limiter.rs), the attack detector                    *)
(* (core/ddos_detector.rs), the rule engine (core/rule_engine.rs) and the *)
(* HTTP status mapping of the API layer (api/mod.rs), over a Redis-like   *)
(* store of counters with expiry.                                         *)
(*                                                                         *)
(* Time is counted in whole seconds (Redis EXPIRE/TTL granularity); Tick   *)
(* is the passing of one second.  A store command is an atomic step of    *)
(* the store; a method that issues several commands is split at the       *)
(* commands whose effects other callers can observe in between.           *)
(***************************************************************************)
EXTENDS Integers, Sequences, FiniteSets, TLC

\* ------------------------------------------------------------- bounds
\* Source identities (IP addresses) and limiter instances sharing one store.
Ids == {"A", "B"}
Insts == {"p1", "p2"}

\* RateLimitConfig.window_seconds, shortened from the test's 60.
Window == 2
\* The counter is not incremented beyond this value (keeps the model finite).
MaxCount == 4

\* RateLimitConfig.default_limit, as configured in tests::test_rate_limiter.
Limit == 2

\* DdosDetectionConfig, as configured in tests::test_connection_detection, the
\* windows and the request and traffic thresholds scaled down.
ConnThreshold == 2
ConnWindow == 2
ReqThreshold == 2
ReqWindow == 2
TrafThreshold == 3
TrafWindow == 1
AnomalyThreshold == 3
AnomalyWindow == 3

\* Request sizes in bytes, and the longest tracker the model lets grow.
Sizes == {1, 3}
MaxTrack == 4

\* Redis TTL replies for a missing key and for a key without expiry.
NoKey == -2
NoExpiry == -1

\* Rule ids, and the values of Rule.priority the rules of the model carry.
RuleIds == {"r1", "r2"}
Priorities == {1, 2}

\* ------------------------------------------------------------- state
VARIABLES
    val,        \* store: key -> integer value, 0 when the key is absent
    exp,        \* store: key -> seconds to live, NoKey or NoExpiry
    hist,       \* store: identity -> the list traffic_history:<identity>
    pc,         \* limiter instance -> "idle" | "expire" (between INCR and EXPIRE)
    pkey,       \* limiter instance -> identity of its check in flight
    pn,         \* observer: ordinal of the check in flight within its window
    pk,         \* observer: ordinal of the check in flight since the last reset
    stale,      \* observer: the window of the check in flight has ended
    calls,      \* observer: identity -> checks that incremented in this window
    allowedWin, \* observer: identity -> Ok results of checks of this window
    sinceReset, \* observer: identity -> checks since the last successful reset
    recent,     \* observer: age in seconds -> Ok results of BurstId at that age
    resetUsed,  \* observer: BurstId was reset at some point
    rlLast,     \* the limiter operation that completed in the last step, its result
    connTr,     \* detector: connection_tracker, identity -> ages, oldest first
    reqTr,      \* detector: request_tracker, identity -> ages, oldest first
    trafTr,     \* detector: traffic_tracker, identity -> <<age, size>>, oldest first
    connLog,    \* observer: identity -> ages of its connections of the last window
    detLast,    \* the detector operation that completed in the last step, its result
                \* and the signal (sig) whose threshold it found exceeded
    obs,        \* what the behaviour exercises and which observers it records
    rules,      \* rule engine: the in-memory table, rule id -> {} or {rule}
    rkey,       \* store: the key "rules", absent, a string or a sorted set
    active,     \* observer: rule id -> the rule the completed mutations made of it
    reLast,     \* the rule-engine operation that completed in the last step
    reFailed,   \* observer: a store interaction of the rule engine has failed
    hashOrder,  \* rule engine: the iteration order of the HashMap of the table
    ctr,        \* store: the counters the rule conditions read, key -> value
    updated,    \* observer: the rule ids whose rule was last put by update_rule
    holder,     \* how the engine is held: "Arc" (main) or "Mutex" (the API state)
    mutex,      \* API state: the caller holding the guard of Mutex<RuleEngine>
    rwRead,     \* rule engine: the callers holding a read guard of self.rules
    cpc,        \* caller -> where its call of a rule-engine method stands
    cop,        \* caller -> the method of its call
    carg,       \* caller -> the rule its add_rule was called with
    lpc,        \* process_rules: where the background loop stands
    lrest,      \* process_rules: the rules of this iteration still to process
    sd,         \* main: "running", "signalled" (ctrl-c seen) or "done"
    lnote       \* observer: an iteration started after the signal (late), the
                \* abort met an iteration in flight (cut)

storeVars == <<val, exp, hist>>
limVars == <<pc, pkey, pn, pk, stale, calls, allowedWin, sinceReset, recent,
             resetUsed, rlLast>>
detVars == <<connTr, reqTr, trafTr, connLog, detLast>>
ruleVars == <<rules, rkey, active, reLast, reFailed, hashOrder, ctr, updated>>
loopVars == <<lpc, lrest, sd, lnote>>
lockVars == <<holder, mutex, rwRead, cpc, cop, carg, loopVars>>
vars == <<storeVars, limVars, detVars, obs, ruleVars, lockVars>>

\* The identity whose Ok results are logged by age.
BurstId == "A"

\* A key format that leaves the identity out.
FormatKey_NoIdentity(prefix, key) == prefix \o ":"

\* utils.rs: format!("{}:{}", prefix, key)
FormatKey(prefix, key) == prefix \o ":" \o key

\* The key get_remaining and get_reset_time build with format!("rate_limit:{}", key).
RateLimitKey(key) == "rate_limit:" \o key

Prefixes == {"rate_limit", "ddos_connection", "ddos_request", "ddos_traffic",
             "ddos_anomaly"}
Keys == {FormatKey(pre, id) : pre \in Prefixes, id \in Ids}

Max(a, b) == IF a >= b THEN a ELSE b

\* ------------------------------------------------------------- store commands
\* An INCR that stops counting once the value is above the limit.
IncrVal_StopsAboveLimit(k) == [val EXCEPT ![k] = IF @ > Limit THEN @ ELSE @ + 1]

\* INCR key: the new value; a missing key is created at 1 with no expiry.
IncrVal(k) == [val EXCEPT ![k] = @ + 1]
IncrExp(k) == IF val[k] = 0 THEN [exp EXCEPT ![k] = NoExpiry] ELSE exp

\* EXPIRE key seconds: sets the time to live of an existing key, else nothing.
ExpireExp(e, v, k, secs) == IF v[k] = 0 THEN e ELSE [e EXCEPT ![k] = secs]

\* A DEL that leaves the value in place.
DelVal_Kept(k) == val

\* DEL key.
DelVal(k) == [val EXCEPT ![k] = 0]
DelExp(k) == [exp EXCEPT ![k] = NoKey]

\* TTL key.
TtlReply(k) == exp[k]

\* ------------------------------------------------------------- rate limiter
\* A comparison that rejects the check that reaches the limit.
CheckVerdict_AtLimit(count) == IF count >= Limit THEN "ExceededLimit" ELSE "Ok"

\* A comparison that admits one check more than the limit.
CheckVerdict_OffByOne(count) == IF count > Limit + 1 THEN "ExceededLimit" ELSE "Ok"

\* check_rate_limit, lines 64-68: the verdict for a post-increment count.
CheckVerdict(count) == IF count > Limit THEN "ExceededLimit" ELSE "Ok"

\* check_rate_limit, line 57: only the call that made the count 1 sets the expiry.
SetsExpiry(count) == count = 1

\* check_rate_limit, lines 47-55: a failed connection or INCR is returned as
\* RedisError.
IncrFailure(connOk, cmdOk) == IF ~connOk \/ ~cmdOk THEN "RedisError" ELSE "none"

\* An EXPIRE whose failure is dropped (let _ = conn.expire(..)).
ExpireResult_Ignored(cmdOk, count) == CheckVerdict(count)

\* check_rate_limit, lines 58-61: a failed EXPIRE is returned as RedisError.
ExpireResult(cmdOk, count) == IF cmdOk THEN CheckVerdict(count) ELSE "RedisError"

\* An expiry one second short of the window.
ExpirySeconds_Short == Window - 1

\* check_rate_limit, line 58: self.config.window_seconds as the EXPIRE argument.
ExpirySeconds == Window

NoOp == [op |-> "none", id |-> "A", res |-> "Ok", n |-> 0, k |-> 0, fail |-> FALSE]
NoDet == [op |-> "none", id |-> "A", res |-> "false", n |-> 0, up |-> TRUE,
          fail |-> FALSE, size |-> 0, sig |-> "none"]

\* ------------------------------------------------------------- rule data
\* enum RuleCondition: the variant, its threshold or minimum score, its
\* window and its pattern.
RequestRate(threshold, window) ==
    [kind |-> "RequestRate", n |-> threshold, w |-> window, pat |-> ""]
TrafficVolume(threshold, window) ==
    [kind |-> "TrafficVolume", n |-> threshold, w |-> window, pat |-> ""]
UserAgent(pattern) == [kind |-> "UserAgent", n |-> 0, w |-> 0, pat |-> pattern]
IpReputation(minScore) == [kind |-> "IpReputation", n |-> minScore, w |-> 0, pat |-> ""]

\* enum RuleAction: the variant and its number (duration or rate).
Block(seconds) == [kind |-> "Block", n |-> seconds]
Log == [kind |-> "Log", n |-> 0]

\* struct Rule, its name and description left out.  The rules of the
\* management operations carry no condition and one Block action.
Rules == [id : RuleIds, priority : Priorities, enabled : BOOLEAN,
          conditions : {<<>>}, actions : {<<Block(300)>>}]

\* The condition lists of the rules that are evaluated: thresholds of 2
\* requests or bytes in 60 seconds, the pattern "bot", minimum scores on both
\* sides of the score 5.0 of get_ip_reputation.
CondLists == {<<>>,
              <<RequestRate(2, 60)>>,
              <<TrafficVolume(2, 60)>>,
              <<UserAgent("bot")>>,
              <<UserAgent("bot"), RequestRate(2, 60)>>,
              <<IpReputation(3)>>,
              <<IpReputation(7)>>}

\* The rules that are evaluated: r1 with conditions, r2 with none and one
\* action more.
EvalRules ==
    [id : {"r1"}, priority : {1}, enabled : BOOLEAN,
     conditions : CondLists, actions : {<<Block(300)>>}]
    \cup [id : {"r2"}, priority : Priorities, enabled : BOOLEAN,
          conditions : {<<>>}, actions : {<<Log, Block(300)>>}]

\* Option<Rule>: None is the empty set, Some(rule) the set of that rule.
NoRule == {}

\* RuleEngine::new: rules is RwLock::new(HashMap::new()).
EmptyTable == [id \in RuleIds |-> NoRule]

\* serde_json::to_string(&rule): the text of the fields, the id first.
ToJson(rule) ==
    <<"{", rule.id, rule.priority, rule.enabled, rule.conditions, rule.actions, "}">>

\* serde_json::from_str::<Rule>(&json).ok(): None for a text that is no rule.
FromJson(json) ==
    IF /\ Len(json) = 7
       /\ json[1] = "{"
       /\ json[7] = "}"
       /\ json[2] \in RuleIds
       /\ json[3] \in Priorities
       /\ json[4] \in BOOLEAN
    THEN {[id |-> json[2], priority |-> json[3], enabled |-> json[4],
           conditions |-> json[5], actions |-> json[6]]}
    ELSE NoRule

\* serde_json::to_string(&*rules_lock): the JSON object of the whole table.
TableJson(table) == [id \in RuleIds |-> {ToJson(r) : r \in table[id]}]

\* The store key "rules": absent, a string (written by SET) or a sorted set of
\* <<score, member>> pairs (written by ZADD).  An emptied sorted set is absent.
AbsentKey == [type |-> "none", str |-> TableJson(EmptyTable), zset |-> {}]
StringKey(json) == [type |-> "string", str |-> json, zset |-> {}]
ZsetKey(z) ==
    IF z = {} THEN AbsentKey
    ELSE [type |-> "zset", str |-> TableJson(EmptyTable), zset |-> z]

\* The sorted sets found under "rules" when the engine starts: none, or one
\* holding the rule r1 with its priority as the score.
SeedRule == [id |-> "r1", priority |-> 1, enabled |-> TRUE,
             conditions |-> <<>>, actions |-> <<Block(300)>>]
Seeds == {{}, {<<SeedRule.priority, ToJson(SeedRule)>>}}

\* A completed rule-engine operation: what get_rule returned (got), what
\* update_rule or remove_rule returned (found), what get_rules returned (list),
\* the rules that contributed to evaluate_request (fired) and the actions it
\* returned (acts) for the user agent ua with the store reachable or not (up).
RuleOp(op, id, got, found, was, fail) ==
    [op |-> op, id |-> id, got |-> got, found |-> found, was |-> was,
     fail |-> fail, list |-> <<>>, fired |-> <<>>, acts |-> <<>>, ip |-> "A",
     ua |-> <<>>, up |-> TRUE]

NoRuleOp == RuleOp("none", "r1", NoRule, FALSE, FALSE, FALSE)

\* The iteration orders of a HashMap of the rule ids: the order follows the
\* hashes under the random keys the map draws when it is created.
HashOrders == {<<"r1", "r2">>, <<"r2", "r1">>}

\* The keys get_counter is called with, and the values found under them.
CounterKeys == {<<pre, ip, 60>> : pre \in {"request_rate", "traffic_volume"},
                                  ip \in {"A"}}
CounterValues == {0, 2, 3}

\* The rule engine after construction: an empty table with one of the
\* iteration orders, over a store holding one of seeds and one of counters.
InitRuleStore(seeds, orders, counters) ==
    /\ rules = EmptyTable
    /\ \E z \in seeds :
            /\ rkey = ZsetKey(z)
            /\ active = [id \in RuleIds |->
                            {r \in Rules : \E m \in z : r.id = id /\ FromJson(m[2]) = {r}}]
    /\ reLast = NoRuleOp
    /\ reFailed = FALSE
    /\ hashOrder \in orders
    /\ ctr \in [CounterKeys -> counters]
    /\ updated = {}

\* The two ways the repository holds a rule engine.  main shares it as
\* Arc<RuleEngine> (main.rs lines 51-54), through which only the methods
\* taking &self can be called.  The API state holds Arc<Mutex<RuleEngine>>
\* (api/mod.rs line 20): a handler takes the guard of the mutex before it
\* calls any method and keeps it until it returns.
Holders == {"Arc", "Mutex"}

\* The tasks calling into one engine at the same time, and the methods they
\* call.
Callers == {"h1", "h2"}
Methods == {"add_rule", "evaluate_request"}

\* No call in progress on an engine held in one of the ways hs.
InitAccess(hs) ==
    /\ holder \in hs
    /\ mutex = {}
    /\ rwRead = {}
    /\ cpc = [c \in Callers |-> "idle"]
    /\ cop = [c \in Callers |-> "evaluate_request"]
    /\ carg = [c \in Callers |-> NoRule]
    /\ lpc = "scan"
    /\ lrest = <<>>
    /\ sd = "running"
    /\ lnote = [late |-> FALSE, cut |-> FALSE]

InitRuleEngine(seeds) ==
    InitRuleStore(seeds, {<<"r1", "r2">>}, {0}) /\ InitAccess({"Mutex"})

\* The client whose traffic the detector is exercised with.
DetIds == {"A"}

\* Contents of the list traffic_history:<identity> found in the store.  The
\* detector only reads the list; the last history is ten equal samples
\* followed by an outlier, whose z-score is 10/sqrt(11) > 3.
Histories == {<<>>, <<1>>, <<3, 3>>, <<1, 3>>,
              <<1, 1, 1, 1, 1, 1, 1, 1, 1, 1, 3>>}

\* The engine after construction, the store holding one of the histories hs.
InitState(modes, hs) ==
    /\ val = [k \in Keys |-> 0]
    /\ exp = [k \in Keys |-> NoKey]
    /\ \E h \in hs : hist = [id \in Ids |-> IF id \in DetIds THEN h ELSE <<>>]
    /\ pc = [p \in Insts |-> "idle"]
    /\ pkey = [p \in Insts |-> "A"]
    /\ pn = [p \in Insts |-> 0]
    /\ pk = [p \in Insts |-> 0]
    /\ stale = [p \in Insts |-> FALSE]
    /\ calls = [id \in Ids |-> 0]
    /\ allowedWin = [id \in Ids |-> 0]
    /\ sinceReset = [id \in Ids |-> Limit + 1]
    /\ recent = [a \in 0..Window |-> 0]
    /\ resetUsed = FALSE
    /\ rlLast = NoOp
    /\ connTr = [id \in Ids |-> <<>>]
    /\ reqTr = [id \in Ids |-> <<>>]
    /\ trafTr = [id \in Ids |-> <<>>]
    /\ connLog = [id \in Ids |-> <<>>]
    /\ detLast = NoDet
    /\ obs \in modes

InitWith(modes) == InitState(modes, {<<>>}) /\ InitRuleEngine({{}})

\* Observers of a completed check of identity id with result res.
NoteAllowed(id, res, isStale) ==
    /\ allowedWin' = IF obs = "quota" /\ res = "Ok" /\ ~isStale
                     THEN [allowedWin EXCEPT ![id] = @ + 1] ELSE allowedWin
    /\ recent' = IF obs = "burst" /\ res = "Ok" /\ id = BurstId /\ ~resetUsed
                 THEN [recent EXCEPT ![0] = @ + 1] ELSE recent

Bump(n) == IF n > Limit THEN n ELSE n + 1

\* check_rate_limit up to and including INCR (lines 45-69 for a count above 1,
\* lines 45-57 for the count 1, whose EXPIRE is the step CheckExpire).
CheckIncr(p, id, connOk, cmdOk) ==
    LET k == FormatKey("rate_limit", id)
        count == val[k] + 1
        sr == IF obs = "quota" THEN Bump(sinceReset[id]) ELSE sinceReset[id]
    IN
    /\ pc[p] = "idle"
    /\ IF IncrFailure(connOk, cmdOk) # "none"
       THEN /\ rlLast' = [op |-> "check", id |-> id, res |-> IncrFailure(connOk, cmdOk),
                          n |-> 0, k |-> 0, fail |-> TRUE]
            /\ UNCHANGED <<val, exp, pc, pkey, pn, pk, stale, calls, allowedWin,
                           sinceReset, recent, resetUsed>>
       ELSE /\ val[k] < MaxCount
            /\ val' = IncrVal(k)
            /\ exp' = IncrExp(k)
            /\ calls' = [calls EXCEPT ![id] = @ + 1]
            /\ sinceReset' = [sinceReset EXCEPT ![id] = sr]
            /\ IF SetsExpiry(count)
               THEN /\ pc' = [pc EXCEPT ![p] = "expire"]
                    /\ pkey' = [pkey EXCEPT ![p] = id]
                    /\ pn' = [pn EXCEPT ![p] = calls[id] + 1]
                    /\ pk' = [pk EXCEPT ![p] = sr]
                    /\ rlLast' = NoOp
                    /\ UNCHANGED <<stale, allowedWin, recent>>
               ELSE /\ rlLast' = [op |-> "check", id |-> id, res |-> CheckVerdict(count),
                                  n |-> calls[id] + 1, k |-> sr, fail |-> FALSE]
                    /\ NoteAllowed(id, CheckVerdict(count), FALSE)
                    /\ UNCHANGED <<pc, pkey, pn, pk, stale>>
            /\ UNCHANGED resetUsed
    /\ UNCHANGED <<hist, detVars, obs, lockVars, ruleVars>>

\* check_rate_limit from EXPIRE to its return (lines 57-69), count being 1.
CheckExpire(p, cmdOk) ==
    LET id == pkey[p]
        k == FormatKey("rate_limit", id)
        res == ExpireResult(cmdOk, 1)
    IN
    /\ pc[p] = "expire"
    /\ exp' = IF cmdOk THEN ExpireExp(exp, val, k, ExpirySeconds) ELSE exp
    /\ pc' = [pc EXCEPT ![p] = "idle"]
    /\ pkey' = [pkey EXCEPT ![p] = "A"]
    /\ pn' = [pn EXCEPT ![p] = 0]
    /\ pk' = [pk EXCEPT ![p] = 0]
    /\ stale' = [stale EXCEPT ![p] = FALSE]
    /\ rlLast' = [op |-> "check", id |-> id, res |-> res, n |-> pn[p],
                  k |-> pk[p], fail |-> ~cmdOk]
    /\ NoteAllowed(id, res, stale[p])
    /\ UNCHANGED <<val, hist, calls, sinceReset, resetUsed, detVars,
                   obs, lockVars, ruleVars>>

\* reset_rate_limit (lines 76-89): DEL of the identity's counter.
ResetRateLimit(p, id, connOk, cmdOk) ==
    LET k == FormatKey("rate_limit", id) IN
    /\ pc[p] = "idle"
    /\ IF ~connOk \/ ~cmdOk
       THEN /\ rlLast' = [op |-> "reset", id |-> id, res |-> "RedisError",
                          n |-> 0, k |-> 0, fail |-> TRUE]
            /\ UNCHANGED <<val, exp, calls, allowedWin, sinceReset, stale,
                           recent, resetUsed>>
       ELSE /\ val' = DelVal(k)
            /\ exp' = DelExp(k)
            /\ calls' = [calls EXCEPT ![id] = 0]
            /\ allowedWin' = [allowedWin EXCEPT ![id] = 0]
            /\ sinceReset' = IF obs = "quota"
                             THEN [sinceReset EXCEPT ![id] = 0] ELSE sinceReset
            /\ stale' = IF obs = "quota"
                        THEN [q \in Insts |->
                                stale[q] \/ (pc[q] = "expire" /\ pkey[q] = id)]
                        ELSE stale
            /\ resetUsed' = (resetUsed \/ (obs = "burst" /\ id = BurstId))
            /\ recent' = IF obs = "burst" /\ id = BurstId
                         THEN [a \in 0..Window |-> 0] ELSE recent
            /\ rlLast' = [op |-> "reset", id |-> id, res |-> "Ok",
                          n |-> val[k], k |-> 0, fail |-> FALSE]
    /\ UNCHANGED <<pc, pkey, pn, pk, hist, detVars, obs, lockVars, ruleVars>>

\* get_remaining (lines 91-106): 0 without a connection, the limit when GET
\* fails or replies nil (nil does not convert to i64), else limit - current.
Remaining(k, connOk, cmdOk) ==
    IF ~connOk THEN 0
    ELSE IF ~cmdOk \/ val[k] = 0 THEN Limit
    ELSE Limit - val[k]

GetRemaining(id, connOk, cmdOk) ==
    /\ rlLast' = [op |-> "remaining", id |-> id, res |-> "Ok",
                  n |-> Remaining(RateLimitKey(id), connOk, cmdOk), k |-> 0,
                  fail |-> ~connOk \/ ~cmdOk]
    /\ UNCHANGED <<storeVars, pc, pkey, pn, pk, stale, calls, allowedWin,
                   sinceReset, recent, resetUsed, detVars,
                   obs, lockVars, ruleVars>>

\* get_reset_time (lines 108-124): Ok(ttl.max(0)).
ResetTime(k) == Max(TtlReply(k), 0)

GetResetTime(id, connOk, cmdOk) ==
    /\ rlLast' = IF connOk /\ cmdOk
                 THEN [op |-> "reset_time", id |-> id, res |-> "Ok",
                       n |-> ResetTime(RateLimitKey(id)), k |-> 0, fail |-> FALSE]
                 ELSE [op |-> "reset_time", id |-> id, res |-> "RedisError",
                       n |-> 0, k |-> 0, fail |-> TRUE]
    /\ UNCHANGED <<storeVars, pc, pkey, pn, pk, stale, calls, allowedWin,
                   sinceReset, recent, resetUsed, detVars,
                   obs, lockVars, ruleVars>>

\* ------------------------------------------------------------- attack detector
\* while front().map_or(false, |t| now.duration_since(t) > window) { pop_front() }
RECURSIVE PruneFront(_, _)
PruneFront(s, w) ==
    IF s # <<>> /\ Head(s) > w THEN PruneFront(Tail(s), w) ELSE s

RECURSIVE PruneTraffic(_, _)
PruneTraffic(s, w) ==
    IF s # <<>> /\ Head(s)[1] > w THEN PruneTraffic(Tail(s), w) ELSE s

\* traffic.iter().map(|&(_, size)| size).sum()
RECURSIVE TotalTraffic(_)
TotalTraffic(s) ==
    IF s = <<>> THEN 0 ELSE Head(s)[2] + TotalTraffic(Tail(s))

\* The threshold comparisons of check_connection and check_request.
ConnExceeded(len) == len > ConnThreshold
ReqExceeded(len) == len > ReqThreshold
TrafExceeded(total) == total > TrafThreshold

\* A marker write is: get_async_connection()?, SET key timestamp ?, EXPIRE key
\* window ?.  setOk: the connection and the SET succeeded; expOk: the EXPIRE did.
\* SET stores the value without expiry.
MarkerVal(v, k, setOk) == IF setOk THEN [v EXCEPT ![k] = 1] ELSE v

\* A marker write without the EXPIRE.
MarkerExp_NoTtl(e, k, w, setOk, expOk) ==
    IF setOk THEN [e EXCEPT ![k] = NoExpiry] ELSE e

MarkerExp(e, k, w, setOk, expOk) ==
    IF ~setOk THEN e
    ELSE IF expOk THEN [e EXCEPT ![k] = w] ELSE [e EXCEPT ![k] = NoExpiry]

\* The result of a check whose threshold is exceeded: every ? of the marker
\* write returns the error instead of Ok(true).
MarkerResult(setOk, expOk) == IF setOk /\ expOk THEN "true" ELSE "Err"

RECURSIVE SumSeq(_)
SumSeq(s) == IF s = <<>> THEN 0 ELSE Head(s) + SumSeq(Tail(s))

RECURSIVE SumSqDev(_, _, _)
\* The sum over x of (n*x - sum)^2, n*n times the sum of squared deviations.
SumSqDev(s, n, sum) ==
    IF s = <<>> THEN 0
    ELSE (n * Head(s) - sum) * (n * Head(s) - sum) + SumSqDev(Tail(s), n, sum)

\* A z-score of 0.0/0.0 that compares above the threshold.
AnomalyVerdict_NaNAbove(h) ==
    LET n == Len(h)
        sum == SumSeq(h)
        dev == SumSqDev(h, n, sum)
        d == n * h[n] - sum
    IN IF n < 2 THEN FALSE
       ELSE IF dev = 0 THEN TRUE
       ELSE (n - 1) * d * d > AnomalyThreshold * AnomalyThreshold * dev

\* detect_anomaly, lines 221-240: |z| > anomaly_threshold for the z-score of
\* the last sample, in integers: z*z = (n-1)(n*last-sum)^2 / SumSqDev.  With
\* zero variance z is 0.0/0.0 = NaN, and NaN > threshold is false.
AnomalyVerdict(h) ==
    LET n == Len(h)
        sum == SumSeq(h)
        dev == SumSqDev(h, n, sum)
        d == n * h[n] - sum
    IN IF n < 2 THEN FALSE
       ELSE IF dev = 0 THEN FALSE
       ELSE (n - 1) * d * d > AnomalyThreshold * AnomalyThreshold * dev

\* detect_anomaly (lines 204-250).  failAt is the store interaction that fails:
\* 1 the connection, 2 EXISTS, 3 LRANGE, 4 SET, 5 EXPIRE, 0 none.
AnomalyResult(h, failAt) ==
    IF failAt \in {1, 2} THEN "Err"
    ELSE IF h = <<>> THEN "false"
    ELSE IF failAt = 3 THEN "Err"
    ELSE IF ~AnomalyVerdict(h) THEN "false"
    ELSE IF failAt \in {4, 5} THEN "Err"
    ELSE "true"

AnomalyMarks(h, failAt) == h # <<>> /\ failAt \notin {1, 2, 3} /\ AnomalyVerdict(h)

\* check_connection (lines 96-122).  failAt: 1 the connection, 2 SET, 3 EXPIRE.
CheckConnection(id, failAt) ==
    LET pruned == PruneFront(connTr[id], ConnWindow)
        conns == Append(pruned, 0)
        over == ConnExceeded(Len(conns))
        key == FormatKey("ddos_connection", id)
        setOk == failAt \notin {1, 2}
        expOk == failAt # 3
    IN
    /\ Len(pruned) < MaxTrack
    /\ Len(connLog[id]) < MaxTrack
    /\ connTr' = [connTr EXCEPT ![id] = conns]
    /\ connLog' = [connLog EXCEPT ![id] = Append(@, 0)]
    /\ val' = IF over THEN MarkerVal(val, key, setOk) ELSE val
    /\ exp' = IF over THEN MarkerExp(exp, key, ConnWindow, setOk, expOk) ELSE exp
    /\ detLast' = [op |-> "conn", id |-> id,
                   res |-> IF over THEN MarkerResult(setOk, expOk) ELSE "false",
                   n |-> Len(connLog[id]) + 1, up |-> failAt # 1,
                   fail |-> over /\ failAt \in 1..3, size |-> 0,
                   sig |-> IF over THEN "conn" ELSE "none"]
    /\ UNCHANGED <<hist, reqTr, trafTr, limVars, obs, lockVars, ruleVars>>

\* check_request (lines 136-191).  failAt: for a marker write 1 the connection,
\* 2 SET, 3 EXPIRE; for detect_anomaly as in AnomalyResult.
CheckRequest(id, size, failAt) ==
    LET reqs == Append(PruneFront(reqTr[id], ReqWindow), 0)
        traf == Append(PruneTraffic(trafTr[id], TrafWindow), <<0, size>>)
        overReq == ReqExceeded(Len(reqs))
        overTraf == TrafExceeded(TotalTraffic(traf))
        setOk == failAt \notin {1, 2}
        expOk == failAt # 3
        key == IF overReq THEN FormatKey("ddos_request", id)
               ELSE IF overTraf THEN FormatKey("ddos_traffic", id)
               ELSE FormatKey("ddos_anomaly", id)
        w == IF overReq THEN ReqWindow
             ELSE IF overTraf THEN TrafWindow ELSE AnomalyWindow
        marks == AnomalyMarks(hist[id], failAt)
    IN
    /\ Len(reqs) <= MaxTrack
    /\ Len(traf) <= MaxTrack
    /\ reqTr' = [reqTr EXCEPT ![id] = reqs]
    /\ trafTr' = [trafTr EXCEPT ![id] = traf]
    /\ val' = IF overReq \/ overTraf THEN MarkerVal(val, key, setOk)
              ELSE IF marks THEN MarkerVal(val, key, failAt # 4)
              ELSE val
    /\ exp' = IF overReq \/ overTraf THEN MarkerExp(exp, key, w, setOk, expOk)
              ELSE IF marks THEN MarkerExp(exp, key, w, failAt # 4, failAt # 5)
              ELSE exp
    /\ detLast' = [op |-> "req", id |-> id,
                   res |-> IF overReq \/ overTraf THEN MarkerResult(setOk, expOk)
                           ELSE AnomalyResult(hist[id], failAt),
                   n |-> 0, up |-> failAt # 1,
                   fail |-> IF overReq \/ overTraf THEN failAt \in 1..3
                            ELSE AnomalyResult(hist[id], failAt) = "Err",
                   size |-> size,
                   sig |-> IF overReq THEN "req"
                           ELSE IF overTraf THEN "traf"
                           ELSE IF marks THEN "anomaly" ELSE "none"]
    /\ UNCHANGED <<hist, connTr, connLog, limVars, obs, lockVars, ruleVars>>

\* reset_detection (lines 257-277): the three trackers are cleared first, then
\* the four marker keys are deleted in order.  failAt: 1 the connection, 2..5
\* the DEL of the first..fourth key.
ResetOrder == <<"ddos_connection", "ddos_request", "ddos_traffic", "ddos_anomaly">>

Deleted(id, failAt) ==
    {FormatKey(ResetOrder[i], id) :
        i \in {j \in 1..4 : failAt = 0 \/ (failAt >= 2 /\ j < failAt - 1)}}

ResetDetection(id, failAt) ==
    /\ connTr' = [connTr EXCEPT ![id] = <<>>]
    /\ reqTr' = [reqTr EXCEPT ![id] = <<>>]
    /\ trafTr' = [trafTr EXCEPT ![id] = <<>>]
    /\ val' = [k \in Keys |-> IF k \in Deleted(id, failAt) THEN 0 ELSE val[k]]
    /\ exp' = [k \in Keys |-> IF k \in Deleted(id, failAt) THEN NoKey ELSE exp[k]]
    /\ connLog' = [connLog EXCEPT ![id] = <<>>]
    /\ detLast' = [op |-> "reset", id |-> id,
                   res |-> IF failAt = 0 THEN "Ok" ELSE "Err",
                   n |-> 0, up |-> failAt # 1, fail |-> failAt # 0, size |-> 0,
                   sig |-> "none"]
    /\ UNCHANGED <<hist, limVars, obs, lockVars, ruleVars>>

\* ------------------------------------------------------------- rule engine
\* ZRANGE rules 0 -1: an error (WRONGTYPE) for a string, else the members in
\* the order of their score, members of equal score in the order of their text.
ZRangeOk(key) == key.type # "string"

IdRank(id) == IF id = "r1" THEN 1 ELSE 2

MemberBefore(a, b) ==
    \/ a[1] < b[1]
    \/ a[1] = b[1] /\ IdRank(a[2][2]) < IdRank(b[2][2])
    \/ a[1] = b[1] /\ a[2][2] = b[2][2] /\ a[2][3] < b[2][3]
    \/ a[1] = b[1] /\ a[2][2] = b[2][2] /\ a[2][3] = b[2][3] /\ ~a[2][4] /\ b[2][4]

RECURSIVE ZRange(_)
ZRange(z) ==
    IF z = {} THEN <<>>
    ELSE LET m == CHOOSE a \in z : \A b \in z \ {a} : MemberBefore(a, b)
         IN <<m[2]>> \o ZRange(z \ {m})

\* The first member of the reply that parses as a rule of the given id.
RECURSIVE FindMember(_, _)
FindMember(jsons, id) ==
    IF jsons = <<>> THEN {}
    ELSE IF \E r \in FromJson(Head(jsons)) : r.id = id THEN {Head(jsons)}
    ELSE FindMember(Tail(jsons), id)

\* The members a lookup sees.  failAt: 1 the connection, 2 ZRANGE.
Lookup(id, failAt) ==
    IF failAt \in {1, 2} \/ ~ZRangeOk(rkey) THEN {}
    ELSE FindMember(ZRange(rkey.zset), id)

\* ZREM rules member, and ZADD rules score member.
ZRem(z, member) == {m \in z : m[2] # member}
ZAdd(z, score, member) == ZRem(z, member) \cup {<<score, member>>}

\* add_rule (lines 176-181): insert into the table, then save_rules (lines
\* 152-173), SET rules <json of the table>, whose error is dropped.
\* failAt: 1 the connection, 2 SET.
AddRule(rule, failAt) ==
    LET table == [rules EXCEPT ![rule.id] = {rule}] IN
    /\ rules' = table
    /\ rkey' = IF failAt = 0 THEN StringKey(TableJson(table)) ELSE rkey
    /\ active' = [active EXCEPT ![rule.id] = {rule}]
    /\ reLast' = RuleOp("add", rule.id, NoRule, FALSE, active[rule.id] # NoRule,
                         failAt # 0)
    /\ reFailed' = (reFailed \/ failAt # 0)
    /\ updated' = updated \ {rule.id}
    /\ UNCHANGED <<hashOrder, ctr, storeVars, limVars, detVars, obs, lockVars>>

\* get_rule (lines 184-204): None without a connection or a ZRANGE reply.
GetRule(id, failAt) ==
    LET member == Lookup(id, failAt) IN
    /\ reLast' = RuleOp("get", id, UNION {FromJson(m) : m \in member},
                         member # {}, active[id] # NoRule, failAt # 0)
    /\ reFailed' = (reFailed \/ failAt # 0)
    /\ UNCHANGED <<rules, rkey, active, hashOrder, ctr, updated, storeVars, limVars,
                   detVars, obs, lockVars>>

\* update_rule (lines 230-272): false without a connection or a ZRANGE reply;
\* for the member found, ZREM and ZADD in one MULTI/EXEC whose error is
\* dropped.  failAt: 1 the connection, 2 ZRANGE, 3 the pipeline.
UpdateRule(id, rule, failAt) ==
    LET member == Lookup(id, failAt) IN
    /\ rule.id = id
    /\ rkey' = IF member # {} /\ failAt # 3
               THEN ZsetKey(ZAdd(ZRem(rkey.zset, CHOOSE m \in member : TRUE),
                                 rule.priority, ToJson(rule)))
               ELSE rkey
    /\ active' = IF active[id] # NoRule THEN [active EXCEPT ![id] = {rule}]
                 ELSE active
    /\ reLast' = RuleOp("update", id, NoRule, member # {}, active[id] # NoRule,
                         failAt # 0)
    /\ reFailed' = (reFailed \/ failAt # 0)
    /\ updated' = IF obs = "lifecycle" /\ active[id] # NoRule
                  THEN updated \cup {id} ELSE updated
    /\ UNCHANGED <<rules, hashOrder, ctr, storeVars, limVars, detVars,
                   obs, lockVars>>

\* remove_rule (lines 275-307): as update_rule, with ZREM alone.
\* failAt: 1 the connection, 2 ZRANGE, 3 ZREM.
RemoveRule(id, failAt) ==
    LET member == Lookup(id, failAt) IN
    /\ rkey' = IF member # {} /\ failAt # 3
               THEN ZsetKey(ZRem(rkey.zset, CHOOSE m \in member : TRUE))
               ELSE rkey
    /\ active' = [active EXCEPT ![id] = NoRule]
    /\ reLast' = RuleOp("remove", id, NoRule, member # {}, active[id] # NoRule,
                         failAt # 0)
    /\ reFailed' = (reFailed \/ failAt # 0)
    /\ updated' = updated \ {id}
    /\ UNCHANGED <<rules, hashOrder, ctr, storeVars, limVars, detVars,
                   obs, lockVars>>

\* get_rules (lines 207-227): the members that parse as rules, in the order of
\* the ZRANGE reply; an empty list without a connection or a reply.
RECURSIVE ParseAll(_)
ParseAll(jsons) ==
    IF jsons = <<>> THEN <<>>
    ELSE (IF FromJson(Head(jsons)) = NoRule THEN <<>>
          ELSE <<CHOOSE r \in FromJson(Head(jsons)) : TRUE>>)
         \o ParseAll(Tail(jsons))

RuleList(failAt) ==
    IF failAt \in {1, 2} \/ ~ZRangeOk(rkey) THEN <<>>
    ELSE ParseAll(ZRange(rkey.zset))

GetRules(failAt) ==
    /\ reLast' = [RuleOp("list", "r1", NoRule, FALSE, FALSE, failAt # 0)
                    EXCEPT !.list = RuleList(failAt)]
    /\ reFailed' = (reFailed \/ failAt # 0)
    /\ UNCHANGED <<rules, rkey, active, hashOrder, ctr, updated, storeVars,
                   limVars, detVars, obs, lockVars>>

\* The user agents of the requests, as the words they contain.
UserAgents == {<<"Mozilla", "5.0">>, <<"evil", "bot">>}

\* user_agent.contains(pattern)
Contains(ua, pat) == \E i \in 1..Len(ua) : ua[i] = pat

\* get_ip_reputation (lines 393-396): Ok(5.0).
ReputationScore == 5

\* get_counter (lines 377-390): GET key, a missing key read as 0.
GetCounter(key) == ctr[key]

\* One arm of the match of evaluate_request (lines 326-365): the condition is
\* not met ("unmet": conditions_met = false; break), met, or its lookup failed
\* ("error": Err(_) => continue, on to the next condition).
CondOutcome(c, ip, ua, up) ==
    CASE c.kind = "RequestRate" ->
            IF ~up THEN "error"
            ELSE IF GetCounter(<<"request_rate", ip, c.w>>) <= c.n THEN "unmet"
            ELSE "met"
      [] c.kind = "TrafficVolume" ->
            IF ~up THEN "error"
            ELSE IF GetCounter(<<"traffic_volume", ip, c.w>>) <= c.n THEN "unmet"
            ELSE "met"
      [] c.kind = "UserAgent" -> IF Contains(ua, c.pat) THEN "met" ELSE "unmet"
      [] OTHER -> IF ReputationScore < c.n THEN "unmet" ELSE "met"

\* The loop over the conditions of a rule (lines 324-366): conditions_met.
RECURSIVE ConditionsMet(_, _, _, _)
ConditionsMet(conds, ip, ua, up) ==
    IF conds = <<>> THEN TRUE
    ELSE IF CondOutcome(Head(conds), ip, ua, up) = "unmet" THEN FALSE
    ELSE ConditionsMet(Tail(conds), ip, ua, up)

\* The loop over rules_lock.values() (lines 319-371): the rules whose actions
\* are appended, in the iteration order of the table.
RECURSIVE Fired(_, _, _, _, _)
Fired(order, table, ip, ua, up) ==
    IF order = <<>> THEN <<>>
    ELSE (IF \E r \in table[Head(order)] :
                r.enabled /\ ConditionsMet(r.conditions, ip, ua, up)
          THEN <<Head(order)>> ELSE <<>>)
         \o Fired(Tail(order), table, ip, ua, up)

\* actions.extend(rule.actions.clone()) for every rule that fired.
RECURSIVE ActionsOf(_, _)
ActionsOf(ids, table) ==
    IF ids = <<>> THEN <<>>
    ELSE (CHOOSE r \in table[Head(ids)] : TRUE).actions \o ActionsOf(Tail(ids), table)

\* evaluate_request (lines 310-374) for the table of this engine.
EvaluateRequest(ip, ua, up) ==
    LET fired == Fired(hashOrder, rules, ip, ua, up) IN
    /\ reLast' = [RuleOp("eval", "r1", NoRule, FALSE, FALSE, ~up)
                    EXCEPT !.fired = fired, !.acts = ActionsOf(fired, rules),
                           !.ip = ip, !.ua = ua, !.up = up]
    /\ UNCHANGED <<rules, rkey, active, reFailed, hashOrder, ctr, updated,
                   storeVars, limVars, detVars, obs, lockVars>>

\* ------------------------------------------------------------- rule management API
\* api::create_rule, line 222: `rule_engine.add_rule(rule);` builds the future
\* of add_rule and drops it without .await.  A future that is never polled
\* runs none of its body: neither the insert into the table nor save_rules.
UnpolledAddRule(table, rule) == table

\* api::create_rule (lines 203-234): under the mutex, a rule with a generated
\* id (rule_<uuid>, an id no rule has had before) is built from the request,
\* add_rule is called without .await, and 201 Created is answered with the id
\* and the body of the rule.
ApiCreateRule(rule) ==
    /\ active[rule.id] = NoRule
    /\ rules[rule.id] = NoRule
    /\ Lookup(rule.id, 0) = {}
    /\ rules' = UnpolledAddRule(rules, rule)
    /\ active' = [active EXCEPT ![rule.id] = {rule}]
    /\ reLast' = RuleOp("create", rule.id, {rule}, TRUE, FALSE, FALSE)
    /\ UNCHANGED <<rkey, reFailed, hashOrder, ctr, updated, storeVars, limVars,
                   detVars, obs, lockVars>>

\* ------------------------------------------------------------- overlapping calls
\* The steps of add_rule and evaluate_request when several tasks call into one
\* engine: a call is split where it waits for the mutex of the API state, for
\* the RwLock of the table (self.rules) and for the store.
\*
\* A task starts a call.  add_rule takes &mut self (line 176), which an Arc
\* does not give: through it only evaluate_request (&self, line 311) is called.
Call(c, m, arg) ==
    /\ cpc[c] = "idle"
    /\ m = "add_rule" => holder = "Mutex"
    /\ cpc' = [cpc EXCEPT ![c] = "call"]
    /\ cop' = [cop EXCEPT ![c] = m]
    /\ carg' = [carg EXCEPT ![c] = arg]
    /\ UNCHANGED <<holder, mutex, rwRead, ruleVars, storeVars, limVars, detVars,
                   obs, loopVars>>

\* state.rule_engine.lock().await (api/mod.rs lines 184, 207, 243, 267, 291)
\* returns once no other task holds the guard; an Arc is dereferenced at once.
CanEnter(c) == holder = "Arc" \/ mutex = {}

Enter(c) ==
    /\ cpc[c] = "call"
    /\ CanEnter(c)
    /\ mutex' = IF holder = "Mutex" THEN {c} ELSE mutex
    /\ cpc' = [cpc EXCEPT ![c] = "in"]
    /\ UNCHANGED <<holder, rwRead, cop, carg, ruleVars, storeVars, limVars, detVars,
                   obs, loopVars>>

\* The guard of the mutex is dropped when the handler returns.
Leave(c) == mutex \ {c}

\* add_rule, lines 177-179: self.rules.write().await waits until no read guard
\* is held, the rule is inserted and the write guard dropped with no await in
\* between.
AddInsert(c) ==
    /\ cpc[c] = "in" /\ cop[c] = "add_rule"
    /\ rwRead = {}
    /\ \E rule \in carg[c] : rules' = [rules EXCEPT ![rule.id] = {rule}]
    /\ cpc' = [cpc EXCEPT ![c] = "applied"]
    /\ UNCHANGED <<rkey, active, reLast, reFailed, hashOrder, ctr, updated,
                   holder, mutex, rwRead, cop, carg, storeVars, limVars, detVars,
                   obs, loopVars>>

\* save_rules, lines 153-157: a read guard of the table, held to the end of
\* save_rules, under which the table is serialised.
SaveRead(c) ==
    /\ cpc[c] = "applied"
    /\ rwRead' = rwRead \cup {c}
    /\ cpc' = [cpc EXCEPT ![c] = "saving"]
    /\ UNCHANGED <<holder, mutex, cop, carg, ruleVars, storeVars, limVars, detVars,
                   obs, loopVars>>

\* save_rules, lines 159-172, and the return of add_rule, line 180-181: SET
\* rules <json>, its error dropped.  failAt: 1 the connection, 2 SET.
SaveSet(c, failAt) ==
    /\ cpc[c] = "saving"
    /\ rkey' = IF failAt = 0 THEN StringKey(TableJson(rules)) ELSE rkey
    /\ \E rule \in carg[c] :
            /\ active' = [active EXCEPT ![rule.id] = {rule}]
            /\ reLast' = RuleOp("add", rule.id, NoRule, FALSE,
                                 active[rule.id] # NoRule, failAt # 0)
            /\ updated' = updated \ {rule.id}
    /\ reFailed' = (reFailed \/ failAt # 0)
    /\ rwRead' = rwRead \ {c}
    /\ mutex' = Leave(c)
    /\ cpc' = [cpc EXCEPT ![c] = "idle"]
    /\ UNCHANGED <<rules, hashOrder, ctr, holder, cop, carg, storeVars, limVars,
                   detVars,
                   obs, loopVars>>

\* evaluate_request, line 317: self.rules.read().await.  A read guard waits
\* for a write guard only, and none is held across a step.
EvalRead(c) ==
    /\ cpc[c] = "in" /\ cop[c] = "evaluate_request"
    /\ rwRead' = rwRead \cup {c}
    /\ cpc' = [cpc EXCEPT ![c] = "reading"]
    /\ UNCHANGED <<holder, mutex, cop, carg, ruleVars, storeVars, limVars, detVars,
                   obs, loopVars>>

\* evaluate_request, lines 319-373: the walk over the table under the read
\* guard, and the return.
EvalReturn(c, ip, ua) ==
    LET fired == Fired(hashOrder, rules, ip, ua, TRUE) IN
    /\ cpc[c] = "reading"
    /\ reLast' = [RuleOp("eval", "r1", NoRule, FALSE, FALSE, FALSE)
                    EXCEPT !.fired = fired, !.acts = ActionsOf(fired, rules),
                           !.ip = ip, !.ua = ua]
    /\ rwRead' = rwRead \ {c}
    /\ mutex' = Leave(c)
    /\ cpc' = [cpc EXCEPT ![c] = "idle"]
    /\ UNCHANGED <<rules, rkey, active, reFailed, hashOrder, ctr, updated,
                   holder, cop, carg, storeVars, limVars, detVars,
                   obs, loopVars>>

\* ------------------------------------------------------------- loading
\* serde_json::from_str::<HashMap<String, Rule>>(&json), line 140: Ok when
\* every entry of the object is the text of a rule.
TableParses(json) == \A id \in RuleIds : \A j \in json[id] : FromJson(j) # NoRule
ParsedTable(json) == [id \in RuleIds |-> UNION {FromJson(j) : j \in json[id]}]

\* The store holds under "rules" a string that is not the JSON of a table.
Malformed(key) == key.type = "string" /\ ~TableParses(key.str)

\* A load that empties the table when it cannot parse.
LoadedTable_ClearedOnError(key, table) ==
    IF key.type = "string" /\ TableParses(key.str) THEN ParsedTable(key.str)
    ELSE EmptyTable

\* load_rules, lines 139-146: the table is replaced only after a string was
\* found and parsed; a missing key (nil) leaves it as it is.
LoadedTable(key, table) ==
    IF key.type = "string" /\ TableParses(key.str) THEN ParsedTable(key.str)
    ELSE table

\* load_rules, lines 127-148: Err without a connection (failAt 1), when GET
\* fails (failAt 2, or WRONGTYPE on a sorted set) and when the string does not
\* parse.
LoadResult(key, failAt) ==
    IF failAt # 0 \/ key.type = "zset" \/ Malformed(key) THEN "Err" ELSE "Ok"

LoadRules(failAt) ==
    /\ rules' = IF failAt # 0 THEN rules ELSE LoadedTable(rkey, rules)
    /\ reLast' = RuleOp("load", "r1", NoRule, LoadResult(rkey, failAt) = "Ok", FALSE,
                         LoadResult(rkey, failAt) = "Err")
    /\ reFailed' = (reFailed \/ failAt # 0)
    /\ UNCHANGED <<rkey, active, hashOrder, ctr, updated, storeVars, limVars,
                   detVars, obs, lockVars>>

\* ------------------------------------------------------------- background loop
\* process_rules (lines 407-428) on the engine main shares as Arc<RuleEngine>,
\* and the shutdown of main (main.rs lines 84-105).  The loop stands at "scan"
\* (an iteration has started and waits in get_rules), at "process" (between
\* the rules of the iteration), at "sleep" (line 426), or it has ended:
\* "stopped" when process_rules returned, "aborted" when the task was aborted.
\*
\* The read guards of self.rules the loop holds after get_rules: get_rules
\* (lines 207-227) reads the store and takes no guard of the table.
ScanGuards_TableGuardKept == {"loop"}

ScanGuards == {}

\* Line 410: get_rules, an empty list when the store does not answer.
LoopScan(failAt) ==
    /\ lpc = "scan"
    /\ lrest' = RuleList(failAt)
    /\ rwRead' = rwRead \cup ScanGuards
    /\ lpc' = "process"
    /\ UNCHANGED <<sd, lnote, holder, mutex, cpc, cop, carg, ruleVars, storeVars,
                   limVars, detVars, obs>>

\* Lines 413-423, one rule: a disabled rule is skipped; for an enabled one
\* check_rule_conditions (lines 430-436) and execute_rule_actions (lines
\* 438-444) each open a connection with `?`, and their error is returned from
\* process_rules with `?`.  failAt: 1 the connection of check_rule_conditions,
\* 2 the connection of execute_rule_actions.
LoopRule(failAt) ==
    /\ lpc = "process"
    /\ lrest # <<>>
    /\ IF Head(lrest).enabled /\ failAt # 0
       THEN lpc' = "stopped" /\ lrest' = <<>>
       ELSE lpc' = lpc /\ lrest' = Tail(lrest)
    /\ UNCHANGED <<sd, lnote, holder, mutex, rwRead, cpc, cop, carg, ruleVars,
                   storeVars, limVars, detVars, obs>>

\* Line 426: all rules of the iteration done, tokio::time::sleep(1 s).
LoopSleep ==
    /\ lpc = "process"
    /\ lrest = <<>>
    /\ lpc' = "sleep"
    /\ UNCHANGED <<lrest, sd, lnote, holder, mutex, rwRead, cpc, cop, carg, ruleVars,
                   storeVars, limVars, detVars, obs>>

\* Lines 408-410: the sleep is over and the next iteration starts; the loop
\* does not look at the shutdown channel.
LoopWake ==
    /\ lpc = "sleep"
    /\ lpc' = "scan"
    /\ lnote' = [lnote EXCEPT !.late = @ \/ sd = "signalled"]
    /\ UNCHANGED <<lrest, sd, holder, mutex, rwRead, cpc, cop, carg, ruleVars,
                   storeVars, limVars, detVars, obs>>

\* main.rs lines 88-93: ctrl-c arrives and the shutdown message is sent.
Signal ==
    /\ sd = "running"
    /\ sd' = "signalled"
    /\ UNCHANGED <<lpc, lrest, lnote, holder, mutex, rwRead, cpc, cop, carg,
                   ruleVars, storeVars, limVars, detVars, obs>>

\* main.rs lines 96-105: the message is received, rule_engine_handle.abort()
\* cancels the task where it is suspended, and main returns.
Abort ==
    /\ sd = "signalled"
    /\ sd' = "done"
    /\ lpc' = IF lpc = "stopped" THEN lpc ELSE "aborted"
    /\ lrest' = <<>>
    /\ lnote' = [lnote EXCEPT !.cut = @ \/ lpc \in {"scan", "process"}]
    /\ UNCHANGED <<holder, mutex, rwRead, cpc, cop, carg, ruleVars, storeVars,
                   limVars, detVars, obs>>

\* ------------------------------------------------------------- time
\* One second passes: the store counts every expiry down and drops the keys
\* whose time to live ends; every tracked instant is one second older.  Ages
\* beyond every window are not told apart.
Expiring(k) == exp[k] = 1

MaxAge == Max(Max(ConnWindow, ReqWindow), TrafWindow) + 1
Older(a) == IF a < MaxAge THEN a + 1 ELSE a

Tick ==
    /\ val' = [k \in Keys |-> IF Expiring(k) THEN 0 ELSE val[k]]
    /\ exp' = [k \in Keys |-> IF Expiring(k) THEN NoKey
                               ELSE IF exp[k] > 1 THEN exp[k] - 1 ELSE exp[k]]
    /\ calls' = [id \in Ids |->
                    IF Expiring(FormatKey("rate_limit", id)) THEN 0 ELSE calls[id]]
    /\ allowedWin' = [id \in Ids |->
                    IF Expiring(FormatKey("rate_limit", id)) THEN 0 ELSE allowedWin[id]]
    /\ stale' = [q \in Insts |->
                    stale[q] \/ (obs = "quota" /\ pc[q] = "expire"
                                 /\ Expiring(FormatKey("rate_limit", pkey[q])))]
    /\ recent' = [a \in 0..Window |-> IF a = 0 THEN 0 ELSE recent[a - 1]]
    /\ rlLast' = NoOp
    /\ connTr' = [id \in Ids |-> [i \in 1..Len(connTr[id]) |-> Older(connTr[id][i])]]
    /\ reqTr' = [id \in Ids |-> [i \in 1..Len(reqTr[id]) |-> Older(reqTr[id][i])]]
    /\ trafTr' = [id \in Ids |->
                    [i \in 1..Len(trafTr[id]) |->
                        <<Older(trafTr[id][i][1]), trafTr[id][i][2]>>]]
    /\ connLog' = [id \in Ids |->
                    SelectSeq([i \in 1..Len(connLog[id]) |-> connLog[id][i] + 1],
                              LAMBDA a : a <= ConnWindow)]
    /\ detLast' = NoDet
    /\ UNCHANGED <<hist, pc, pkey, pn, pk, sinceReset, resetUsed,
                   obs, lockVars, ruleVars>>

\* ------------------------------------------------------------- specifications
LimiterStep ==
    \/ \E p \in Insts, id \in Ids, connOk \in BOOLEAN, cmdOk \in BOOLEAN :
            CheckIncr(p, id, connOk, cmdOk)
    \/ \E p \in Insts, cmdOk \in BOOLEAN : CheckExpire(p, cmdOk)
    \/ \E p \in Insts, id \in Ids, connOk \in BOOLEAN, cmdOk \in BOOLEAN :
            ResetRateLimit(p, id, connOk, cmdOk)

NextLimiter ==
    \/ LimiterStep
    \/ \E id \in Ids, connOk \in BOOLEAN, cmdOk \in BOOLEAN :
            GetRemaining(id, connOk, cmdOk)
    \/ \E id \in Ids, connOk \in BOOLEAN, cmdOk \in BOOLEAN :
            GetResetTime(id, connOk, cmdOk)
    \/ Tick

\* The windows of the limiter left to themselves: checks, no reset, and the
\* passing of time.  Time passes, and a check that has incremented goes on to
\* its EXPIRE and returns.
InitWindow == InitWith({"window"})

NextWindow ==
    \/ \E p \in Insts, id \in Ids, connOk \in BOOLEAN, cmdOk \in BOOLEAN :
            CheckIncr(p, id, connOk, cmdOk)
    \/ \E p \in Insts, cmdOk \in BOOLEAN : CheckExpire(p, cmdOk)
    \/ Tick

SpecWindow ==
    /\ InitWindow
    /\ [][NextWindow]_vars
    /\ WF_vars(Tick)
    /\ WF_vars(\E p \in Insts, cmdOk \in BOOLEAN : CheckExpire(p, cmdOk))

\* The limiter with the observers of the quota of a window.
InitLimiter == InitWith({"quota"})
SpecLimiter == InitLimiter /\ [][NextLimiter]_vars

\* The limiter with the log of the Ok results of the last Window seconds.
InitBurst == InitWith({"burst"})
SpecBurst == InitBurst /\ [][NextLimiter]_vars

\* The per-request checks of the limiter and of the detector.  The limiter and
\* the detector share no key and no memory: a behaviour exercises one of them,
\* the detector for the traffic of one client.

InitAdmission == InitWith({"limiter", "conn", "req"})

NextAdmission ==
    \/ obs = "limiter" /\ LimiterStep
    \/ obs = "conn" /\ \E id \in DetIds, failAt \in 0..3 : CheckConnection(id, failAt)
    \/ obs = "req" /\ \E id \in DetIds, size \in Sizes, failAt \in 0..5 :
            CheckRequest(id, size, failAt)
    \/ obs \in {"conn", "req"} /\ \E id \in DetIds, failAt \in 0..5 :
            ResetDetection(id, failAt)
    \/ Tick

SpecAdmission == InitAdmission /\ [][NextAdmission]_vars

\* The detector over a store that holds a traffic history of the client.
InitDetector == InitState({"conn", "req"}, Histories) /\ InitRuleEngine({{}})

NextDetector ==
    \/ obs = "conn" /\ \E id \in DetIds, failAt \in 0..3 : CheckConnection(id, failAt)
    \/ obs = "req" /\ \E id \in DetIds, size \in Sizes, failAt \in 0..5 :
            CheckRequest(id, size, failAt)
    \/ \E id \in DetIds, failAt \in 0..5 : ResetDetection(id, failAt)
    \/ Tick

SpecDetector == InitDetector /\ [][NextDetector]_vars

\* The rule engine behind the mutex of the API state: each method runs to its
\* end before the next one starts.
InitRules == InitState({"rules"}, {<<>>}) /\ InitRuleEngine(Seeds)

NextRules ==
    \/ \E rule \in Rules, failAt \in 0..2 : AddRule(rule, failAt)
    \/ \E id \in RuleIds, failAt \in 0..2 : GetRule(id, failAt)
    \/ \E id \in RuleIds, rule \in Rules, failAt \in 0..3 : UpdateRule(id, rule, failAt)
    \/ \E id \in RuleIds, failAt \in 0..3 : RemoveRule(id, failAt)

SpecRules == InitRules /\ [][NextRules]_vars

\* The life of the rules over a reachable store: the management operations,
\* the listing and the evaluation, for either iteration order of the table.
InitLifecycle ==
    /\ InitState({"lifecycle"}, {<<>>})
    /\ InitRuleStore(Seeds, HashOrders, {0})
    /\ InitAccess({"Mutex"})

NextLifecycle ==
    \/ \E rule \in Rules : AddRule(rule, 0)
    \/ \E id \in RuleIds : GetRule(id, 0)
    \/ \E failAt \in 0..2 : GetRules(failAt)
    \/ \E id \in RuleIds, rule \in Rules : UpdateRule(id, rule, 0)
    \/ \E id \in RuleIds : RemoveRule(id, 0)
    \/ \E ua \in UserAgents : EvaluateRequest("A", ua, TRUE)

SpecLifecycle == InitLifecycle /\ [][NextLifecycle]_vars

\* The evaluation of rules with conditions, next to the request path of the
\* limiter that counts the requests of the client.
InitEval ==
    /\ InitState({"eval"}, {<<>>})
    /\ InitRuleStore({{}}, HashOrders, CounterValues)
    /\ InitAccess({"Mutex"})

NextEval ==
    \/ \E rule \in EvalRules : AddRule(rule, 0)
    \/ \E ua \in UserAgents, up \in BOOLEAN : EvaluateRequest("A", ua, up)
    \/ CheckIncr("p1", "A", TRUE, TRUE)
    \/ CheckExpire("p1", TRUE)

SpecEval == InitEval /\ [][NextEval]_vars

\* The rule-management handlers of the API (api/mod.rs lines 181-298) over a
\* reachable store: create_rule, and get_rule, get_rules, update_rule and
\* delete_rule, each of which locks the engine and answers with what the
\* engine method of the same name returned.
InitApi ==
    /\ InitState({"api"}, {<<>>})
    /\ InitRuleStore(Seeds, {<<"r1", "r2">>}, {0})
    /\ InitAccess({"Mutex"})

NextApi ==
    \/ \E rule \in Rules : ApiCreateRule(rule)
    \/ \E id \in RuleIds : GetRule(id, 0)
    \/ GetRules(0)
    \/ \E id \in RuleIds, rule \in Rules : UpdateRule(id, rule, 0)
    \/ \E id \in RuleIds : RemoveRule(id, 0)

SpecApi == InitApi /\ [][NextApi]_vars

\* The rules the overlapping and the loading behaviours add.
CallRules == {r \in Rules : r.priority = 1}

\* load_rules next to add_rule and evaluate_request, over a store whose key
\* "rules" is missing, holds the JSON of a table, or holds a text that is no
\* JSON of a table; the limiter works on the same store.
TruncatedJson == [id \in RuleIds |-> IF id = "r1" THEN {<<"{", "r1">>} ELSE {}]
StoredTables ==
    {AbsentKey,
     StringKey(TableJson([EmptyTable EXCEPT !["r1"] = {SeedRule}])),
     StringKey(TruncatedJson)}

InitLoad ==
    /\ InitState({"load"}, {<<>>})
    /\ rules = EmptyTable
    /\ rkey \in StoredTables
    /\ active = EmptyTable
    /\ reLast = NoRuleOp
    /\ reFailed = FALSE
    /\ hashOrder = <<"r1", "r2">>
    /\ ctr = [k \in CounterKeys |-> 0]
    /\ updated = {}
    /\ InitAccess({"Arc"})

NextLoad ==
    \/ \E failAt \in 0..2 : LoadRules(failAt)
    \/ \E rule \in CallRules, failAt \in 0..2 : AddRule(rule, failAt)
    \/ \E ua \in UserAgents : EvaluateRequest("A", ua, TRUE)
    \/ CheckIncr("p1", "A", TRUE, TRUE)
    \/ CheckExpire("p1", TRUE)

SpecLoad == InitLoad /\ [][NextLoad]_vars

\* The background loop of main on its engine, requests being evaluated on the
\* same engine, and the shutdown.
InitLoop ==
    /\ InitState({"loop"}, {<<>>})
    /\ InitRuleStore(Seeds, {<<"r1", "r2">>}, {0})
    /\ InitAccess({"Arc"})

NextLoop ==
    \/ \E failAt \in 0..2 : LoopScan(failAt)
    \/ \E failAt \in 0..2 : LoopRule(failAt)
    \/ LoopSleep
    \/ LoopWake
    \/ Signal
    \/ Abort
    \/ \E c \in Callers : Call(c, "evaluate_request", NoRule)
    \/ \E c \in Callers : Enter(c)
    \/ \E c \in Callers : EvalRead(c)
    \/ \E c \in Callers : EvalReturn(c, "A", <<"Mozilla", "5.0">>)

SpecLoop == InitLoop /\ [][NextLoop]_vars

\* Tasks calling add_rule and evaluate_request on one engine at the same
\* time, the engine held in either way.
InitLock ==
    /\ InitState({"lock"}, {<<>>})
    /\ InitRuleStore({{}}, {<<"r1", "r2">>}, {0})
    /\ InitAccess(Holders)

NextLock ==
    \/ \E c \in Callers, rule \in CallRules : Call(c, "add_rule", {rule})
    \/ \E c \in Callers : Call(c, "evaluate_request", NoRule)
    \/ \E c \in Callers : Enter(c)
    \/ \E c \in Callers : AddInsert(c)
    \/ \E c \in Callers : SaveRead(c)
    \/ \E c \in Callers, failAt \in 0..2 : SaveSet(c, failAt)
    \/ \E c \in Callers : EvalRead(c)
    \/ \E c \in Callers : EvalReturn(c, "A", <<"Mozilla", "5.0">>)

SpecLock == InitLock /\ [][NextLock]_vars

\* ------------------------------------------------------------- API layer
\* api::check_rate_limit (lines 131-151): Ok is answered 200 OK, every Err,
\* RedisError included, 429 Too Many Requests.
ApiRateLimitStatus(res) == IF res = "Ok" THEN 200 ELSE 429

\* api::check_ddos (lines 161-177): Ok(_) is answered 200 OK, Err 500.
ApiDdosStatus(res) == IF res = "Err" THEN 500 ELSE 200

\* api::check_ddos (lines 163-170): detection_type is Some("request_rate")
\* whenever check_request returned Ok(true), whichever signal it found, and
\* None otherwise.
ApiDetectionType(res, sig) == IF res = "true" THEN "request_rate" ELSE "none"

\* ------------------------------------------------------------- claims
RlKey(id) == FormatKey("rate_limit", id)

\* C1: with the store reachable and no reset or expiry in between, the N-th
\* check_rate_limit call of an identity in a window returns ExceededLimit if
\* and only if N > Limit, and Ok otherwise.
C1_NthCheckVerdict ==
    (rlLast.op = "check" /\ ~rlLast.fail) =>
        /\ (rlLast.res = "ExceededLimit") <=> (rlLast.n > Limit)
        /\ (rlLast.res = "Ok") <=> (rlLast.n <= Limit)

\* The check after the limit is used up is the first one rejected.
C1_Witness ==
    /\ rlLast.op = "check"
    /\ rlLast.n = Limit + 1
    /\ rlLast.res = "ExceededLimit"

\* C2: however the checks of several limiter instances interleave on the shared
\* store, the Ok results of the checks of one window of an identity never
\* outnumber the limit.
C2_AllowedWithinLimit == \A id \in Ids : allowedWin[id] <= Limit

\* The limit is used up by two instances, the Ok of the call that opened the
\* window arriving after the counter already passed the limit.
C2_Witness ==
    /\ rlLast.op = "check"
    /\ rlLast.res = "Ok"
    /\ rlLast.n = 1
    /\ allowedWin[rlLast.id] = Limit
    /\ val[RlKey(rlLast.id)] > Limit

\* C3: a rate-limit counter that exists (value at least 1) has an expiry set,
\* in every reachable state.
C3_CounterHasExpiry == \A id \in Ids : val[RlKey(id)] >= 1 => exp[RlKey(id)] >= 1

\* C4: after a successful reset_rate_limit the counter is absent, and none of
\* the next Limit checks of the identity is rejected: each returns Ok when its
\* store commands succeed, however many checks came before the reset.
C4_ResetRestoresQuota ==
    /\ (rlLast.op = "reset" /\ rlLast.res = "Ok") =>
            /\ val[RlKey(rlLast.id)] = 0
            /\ exp[RlKey(rlLast.id)] = NoKey
    /\ (rlLast.op = "check" /\ rlLast.k \in 1..Limit) =>
            /\ rlLast.res # "ExceededLimit"
            /\ ~rlLast.fail => rlLast.res = "Ok"

\* The last check of the quota restored by a reset is allowed.
C4_Witness ==
    /\ rlLast.op = "check"
    /\ rlLast.k = Limit
    /\ rlLast.res = "Ok"
    /\ sinceReset[rlLast.id] = Limit

C6_StoreFailureIs5xx ==
    /\ (rlLast.op = "check" /\ rlLast.fail) =>
            /\ ApiRateLimitStatus(rlLast.res) \in 500..599
            /\ ApiRateLimitStatus(rlLast.res) # ApiRateLimitStatus("ExceededLimit")
    /\ (detLast.op = "req" /\ detLast.fail) =>
            ApiDdosStatus(detLast.res) \in 500..599

\* C7: get_remaining is the limit minus the identity's counter, clamped to
\* 0..Limit: never negative and never above the limit.
C7_RemainingClamped ==
    rlLast.op = "remaining" =>
        /\ rlLast.n >= 0
        /\ rlLast.n <= Limit
        /\ ~rlLast.fail => rlLast.n = Max(0, Limit - val[RlKey(rlLast.id)])

\* C8: get_reset_time is 0 while the identity has no window, is the full
\* window when a window opens, and does not increase while the window lasts.
C8_ResetTimeMonotone ==
    /\ [](\A id \in Ids : val[RlKey(id)] = 0 => ResetTime(RlKey(id)) = 0)
    /\ [][\A id \in Ids :
            /\ (val[RlKey(id)] = 0 /\ val'[RlKey(id)] >= 1) =>
                    ResetTime(RlKey(id))' = Window
            /\ (val[RlKey(id)] >= 1 /\ val'[RlKey(id)] >= val[RlKey(id)]) =>
                    ResetTime(RlKey(id))' <= ResetTime(RlKey(id))]_vars

\* C9: without a reset of the identity, the Ok results of its checks in any
\* span of Window seconds (the seconds at both ends included) are at most
\* twice the limit.
RECURSIVE SumRecent(_)
SumRecent(a) == IF a < 0 THEN 0 ELSE recent[a] + SumRecent(a - 1)

C10_ConnVerdict ==
    detLast.op = "conn" =>
        /\ (detLast.res = "true") <=> (detLast.n > ConnThreshold)
        /\ detLast.n = 1 => detLast.res = "false"

\* ------------------------------------------------------------- claims C11..C18
\* The requests of an identity still inside the request-rate window, and the
\* bytes of its requests still inside the traffic-volume window.
RequestsInWindow(id) ==
    Cardinality({i \in 1..Len(reqTr[id]) : reqTr[id][i] <= ReqWindow})

VolumeInWindow(id) ==
    TotalTraffic(SelectSeq(trafTr[id], LAMBDA e : e[1] <= TrafWindow))

\* C11: check_request records the request in the request tracker and, with its
\* size, in the traffic tracker, and it returns true whenever the requests of
\* the identity within the request-rate window outnumber ReqThreshold or the
\* sum of their sizes within the traffic-volume window exceeds TrafThreshold.
C11_RequestVerdict ==
    detLast.op = "req" =>
        LET id == detLast.id IN
        /\ reqTr[id] # <<>>
        /\ reqTr[id][Len(reqTr[id])] = 0
        /\ trafTr[id] # <<>>
        /\ trafTr[id][Len(trafTr[id])] = <<0, detLast.size>>
        /\ (RequestsInWindow(id) > ReqThreshold \/ VolumeInWindow(id) > TrafThreshold)
                => detLast.res = "true"

MarkerPrefixes == {"ddos_connection", "ddos_request", "ddos_traffic", "ddos_anomaly"}

\* C12: after a successful reset_detection the three trackers of the identity
\* are empty, none of its four marker keys exists, and the history left in the
\* store does not make the next check block.
C12_ResetClearsAll ==
    (detLast.op = "reset" /\ detLast.res = "Ok") =>
        LET id == detLast.id IN
        /\ connTr[id] = <<>>
        /\ reqTr[id] = <<>>
        /\ trafTr[id] = <<>>
        /\ \A pre \in MarkerPrefixes :
                val[FormatKey(pre, id)] = 0 /\ exp[FormatKey(pre, id)] = NoKey
        /\ AnomalyResult(hist[id], 0) = "false"

SignalPrefix(sig) ==
    CASE sig = "conn" -> "ddos_connection"
      [] sig = "req" -> "ddos_request"
      [] sig = "traf" -> "ddos_traffic"
      [] OTHER -> "ddos_anomaly"

SignalWindow(sig) ==
    CASE sig = "conn" -> ConnWindow
      [] sig = "req" -> ReqWindow
      [] sig = "traf" -> TrafWindow
      [] OTHER -> AnomalyWindow

\* C13: when a detector check returns true because of a signal, the marker key
\* of that signal and identity exists afterwards, with a time to live equal to
\* the window of the signal.
C13_MarkerWritten ==
    detLast.res = "true" =>
        LET key == FormatKey(SignalPrefix(detLast.sig), detLast.id) IN
        /\ detLast.sig # "none"
        /\ val[key] = 1
        /\ exp[key] = SignalWindow(detLast.sig)

\* A check blocks because of the anomaly signal and leaves the anomaly marker.
C13_Witness ==
    /\ detLast.op = "req"
    /\ detLast.res = "true"
    /\ detLast.sig = "anomaly"
    /\ exp[FormatKey("ddos_anomaly", detLast.id)] = AnomalyWindow

\* C14: when the threshold of the connection, request or traffic signal is
\* exceeded, the check returns true whether or not the marker write succeeds.
C14_MarkerAdvisory ==
    detLast.sig \in {"conn", "req", "traf"} => detLast.res = "true"

AllEqual(h) == \A i, j \in 1..Len(h) : h[i] = h[j]

\* C15: for a history of fewer than 2 samples, and for a history whose samples
\* are all equal, detect_anomaly returns not-anomalous (Ok(false)) whenever its
\* store commands succeed.
C15_DegenerateHistory ==
    (/\ detLast.op = "req"
     /\ detLast.sig \notin {"req", "traf"}
     /\ ~detLast.fail
     /\ (Len(hist[detLast.id]) < 2 \/ AllEqual(hist[detLast.id])))
        => detLast.res = "false"

\* detect_anomaly ran to its end on a history of two equal samples.
C15_Witness ==
    /\ detLast.op = "req"
    /\ detLast.sig = "none"
    /\ ~detLast.fail
    /\ detLast.res = "false"
    /\ Len(hist[detLast.id]) = 2
    /\ AllEqual(hist[detLast.id])

\* C16: after a check_request call the traffic history of the identity holds a
\* sample of the call, and at least 2 samples once 2 requests were seen.
C16_HistoryMaintained ==
    detLast.op = "req" =>
        /\ hist[detLast.id] # <<>>
        /\ Len(reqTr[detLast.id]) >= 2 => Len(hist[detLast.id]) >= 2

\* C17: the result of check_request is decided by the request-rate and the
\* traffic-volume signal alone: when neither threshold is exceeded and no store
\* command fails it returns false, whatever the traffic history in the store.
C17_NoNestedAnomaly ==
    (/\ detLast.op = "req"
     /\ ~detLast.fail
     /\ ~(RequestsInWindow(detLast.id) > ReqThreshold)
     /\ ~(VolumeInWindow(detLast.id) > TrafThreshold))
        => detLast.res = "false"

\* C18: the detection type the API reports names the signal that made the
\* request block (request rate, traffic volume or anomaly), and no signal when
\* the request is not blocked.
C18_VerdictNamesSignal ==
    detLast.op = "req" =>
        ApiDetectionType(detLast.res, detLast.sig) =
            (CASE detLast.res # "true" -> "none"
               [] detLast.res = "true" /\ detLast.sig = "req" -> "request_rate"
               [] detLast.res = "true" /\ detLast.sig = "traf" -> "traffic_volume"
               [] OTHER -> "anomaly")

\* ------------------------------------------------------------- claims C19..C20
\* C19: while no store interaction has failed, get_rule(id) returns the rule
\* that the last add_rule put under that id, and returns None once
\* remove_rule(id) was called after it.
C19_RuleRoundTrip ==
    (reLast.op = "get" /\ ~reFailed) => reLast.got = active[reLast.id]

\* C20: while no store interaction has failed, update_rule(id, r) and
\* remove_rule(id) return true if and only if a rule of that id was in the
\* active rule set when they were called.
C20_FoundIffActive ==
    (reLast.op \in {"update", "remove"} /\ ~reFailed) =>
        (reLast.found <=> reLast.was)

\* ------------------------------------------------------------- claims C21..C30
\* The rules of the active set: added, or found in the store at the start, and
\* not removed since.
ActiveRules == UNION {active[id] : id \in RuleIds}

Range(seq) == {seq[i] : i \in 1..Len(seq)}

\* C21: while no store interaction has failed, get_rules returns every rule of
\* the active set exactly once, a rule of higher priority before one of lower.
C21_ListByPriority ==
    (reLast.op = "list" /\ ~reFailed) =>
        /\ Range(reLast.list) = ActiveRules
        /\ Len(reLast.list) = Cardinality(ActiveRules)
        /\ \A i \in 1..Len(reLast.list) - 1 :
                reLast.list[i].priority >= reLast.list[i + 1].priority

\* What a condition is worth for a request, by the counters in the store.
Holds(c, ip, ua) ==
    CASE c.kind = "RequestRate" -> ctr[<<"request_rate", ip, c.w>>] > c.n
      [] c.kind = "TrafficVolume" -> ctr[<<"traffic_volume", ip, c.w>>] > c.n
      [] c.kind = "UserAgent" -> Contains(ua, c.pat)
      [] OTHER -> ReputationScore >= c.n

\* The rule of the table under an id is enabled and all its conditions hold.
ShouldFire(id, ip, ua) ==
    \E r \in rules[id] :
        r.enabled /\ \A i \in 1..Len(r.conditions) : Holds(r.conditions[i], ip, ua)

PriorityOf(id) == (CHOOSE r \in rules[id] : TRUE).priority

RECURSIVE CountActions(_)
CountActions(ids) ==
    IF ids = <<>> THEN 0
    ELSE Len((CHOOSE r \in rules[Head(ids)] : TRUE).actions) + CountActions(Tail(ids))

\* C22: with the store reachable, evaluate_request returns the actions of
\* exactly the enabled rules whose conditions hold, a rule of higher priority
\* before one of lower, all the actions of each with nothing dropped.
C22_ActionsByPriority ==
    (reLast.op = "eval" /\ reLast.up) =>
        /\ Range(reLast.fired) = {id \in RuleIds : ShouldFire(id, reLast.ip, reLast.ua)}
        /\ Len(reLast.acts) = CountActions(reLast.fired)
        /\ \A i \in 1..Len(reLast.fired) - 1 :
                PriorityOf(reLast.fired[i]) >= PriorityOf(reLast.fired[i + 1])

\* C23: the actions evaluate_request returned are the actions every engine
\* holding the same rules returns for the same request and counters, in the
\* same order.
C23_SameOnEveryEngine ==
    reLast.op = "eval" =>
        \A order \in HashOrders :
            ActionsOf(Fired(order, rules, reLast.ip, reLast.ua, reLast.up), rules)
                = reLast.acts

\* C24: a rule contributes its actions to evaluate_request if and only if it
\* is enabled and every one of its conditions holds, whether or not the store
\* answers the lookups.
C24_FiresIffAllHold ==
    reLast.op = "eval" =>
        \A id \in RuleIds :
            (id \in Range(reLast.fired)) <=> ShouldFire(id, reLast.ip, reLast.ua)

\* The counter the request path maintains for a client: the counter of the
\* window of the rate limiter.
LiveRequests(ip) == val[RlKey(ip)]

\* C25: with the store reachable, an enabled rule whose one condition is
\* RequestRate{threshold, window} contributes if and only if the request
\* counter the request path maintains for the client is above the threshold.
C25_RequestRateIsLive ==
    (reLast.op = "eval" /\ reLast.up) =>
        \A r \in rules["r1"] :
            (r.enabled /\ Len(r.conditions) = 1
                       /\ r.conditions[1].kind = "RequestRate")
                => (("r1" \in Range(reLast.fired))
                        <=> (LiveRequests(reLast.ip) > r.conditions[1].n))

\* C26: when the store does not answer, a rule with a condition on a counter
\* contributes no actions.
C26_FailedLookupIsUnmet ==
    (reLast.op = "eval" /\ ~reLast.up) =>
        \A id \in Range(reLast.fired) :
            \A r \in rules[id] :
                \A i \in 1..Len(r.conditions) :
                    r.conditions[i].kind \notin {"RequestRate", "TrafficVolume"}

\* The rule set the store holds under "rules", as a table.
Persisted(key) ==
    IF key.type = "string"
    THEN [id \in RuleIds |-> UNION {FromJson(j) : j \in key.str[id]}]
    ELSE [id \in RuleIds |->
            {r \in UNION {FromJson(m[2]) : m \in key.zset} : r.id = id}]

\* C27: after add_rule, update_rule or remove_rule has returned, the rule set
\* in the store equals the table in memory.
C27_PersistedEqualsTable ==
    reLast.op \in {"add", "update", "remove"} => Persisted(rkey) = rules

\* C29: a rule that was removed and not added again is not returned by
\* get_rule or get_rules and contributes no actions to evaluate_request.
C29_RemovedIsTerminal ==
    /\ (reLast.op = "get" /\ active[reLast.id] = NoRule) => reLast.got = NoRule
    /\ reLast.op = "list" => \A r \in Range(reLast.list) : active[r.id] # NoRule
    /\ reLast.op = "eval" => \A id \in Range(reLast.fired) : active[id] # NoRule

\* C30: after update_rule(id, r) for an id of the active set, get_rule(id)
\* returns r, and evaluate_request takes the actions of the rule if and only
\* if r is enabled.
C30_UpdateReplaces ==
    /\ (reLast.op = "get" /\ reLast.id \in updated) => reLast.got = active[reLast.id]
    /\ reLast.op = "eval" =>
            \A id \in updated :
                (id \in Range(reLast.fired)) <=> (\E r \in active[id] : r.enabled)

\* A call of evaluate_request that has the engine and has not returned, and
\* one that waits to get it.
Evaluating(c) == cop[c] = "evaluate_request" /\ cpc[c] \in {"in", "reading"}
WaitsToEvaluate(c) == cop[c] = "evaluate_request" /\ cpc[c] = "call"

\* An add_rule between its insert into the table and the end of its write to
\* the store.
Unsaved(c) == cop[c] = "add_rule" /\ cpc[c] \in {"applied", "saving"}

\* C28: while a mutation is applied in memory and its write to the store has
\* not finished, no other call is inside the engine; and a call of
\* evaluate_request is not kept waiting by another call of evaluate_request.
C28_WritersExcludeReadersShare ==
    /\ \A c \in Callers : Unsaved(c) =>
            \A d \in Callers \ {c} : cpc[d] \in {"idle", "call"}
    /\ \A c \in Callers : Evaluating(c) =>
            \A d \in Callers \ {c} : WaitsToEvaluate(d) => CanEnter(d)

\* C31: after a create request was answered with the id and the body of a
\* rule, a get for that id returns the rule and the list contains it.
C31_CreatedIsInRuleSet ==
    /\ reLast.op = "get" => active[reLast.id] \subseteq reLast.got
    /\ reLast.op = "list" => ActiveRules \subseteq Range(reLast.list)

\* No check of the identity stands between its INCR and its EXPIRE.
NoExpirePending(id) == \A p \in Insts : ~(pc[p] = "expire" /\ pkey[p] = id)

\* C35: the window is fixed: a check that finds the counter present increments
\* it and leaves its time to live alone, and a counter whose first check has
\* returned ends within one window length.
C35_FixedWindow ==
    /\ [](\A id \in Ids :
            (val[RlKey(id)] >= 1 /\ NoExpirePending(id))
                => exp[RlKey(id)] \in 1..Window)
    /\ [][\A id \in Ids :
            (val[RlKey(id)] >= 1 /\ val'[RlKey(id)] > val[RlKey(id)])
                => exp'[RlKey(id)] = exp[RlKey(id)]]_vars

\* C36: an identity that was answered ExceededLimit has its counter gone at
\* some later time, with no reset, whatever store command failed before.
C36_EventuallyAllowed ==
    \A id \in Ids :
        (rlLast.op = "check" /\ rlLast.id = id /\ rlLast.res = "ExceededLimit")
            ~> (val[RlKey(id)] = 0)

\* C37: the counter of an identity is the number of its checks that reached
\* the store in this window, the rejected ones included, and the count a
\* check after the first one saw is its place among them.
C37_EveryCallCounts ==
    /\ \A id \in Ids : val[RlKey(id)] = calls[id]
    /\ (rlLast.op = "check" /\ ~rlLast.fail /\ rlLast.n > 1)
            => val[RlKey(rlLast.id)] = rlLast.n

\* A second rejected check in one window was counted as well.
C37_Witness ==
    /\ rlLast.op = "check"
    /\ rlLast.res = "ExceededLimit"
    /\ rlLast.n = Limit + 2
    /\ val[RlKey(rlLast.id)] = Limit + 2

\* What the detector holds for an identity: its three trackers and its four
\* marker keys with their times to live.
DetectorState(id) ==
    <<connTr[id], reqTr[id], trafTr[id],
      [pre \in Prefixes \ {"rate_limit"} |->
            <<val[FormatKey(pre, id)], exp[FormatKey(pre, id)]>>]>>

\* C39: a reset_detection that returns an error leaves the trackers and the
\* marker keys of the identity as they were before the call.
C39_ResetAllOrNothing ==
    [][\A id \in Ids :
            (detLast'.op = "reset" /\ detLast'.res = "Err" /\ detLast'.id = id)
                => DetectorState(id)' = DetectorState(id)]_vars

\* Everything the limiter and the detector hold for an identity.
IdentityState(id) ==
    <<val[RlKey(id)], exp[RlKey(id)], hist[id], DetectorState(id)>>

\* A step of an operation of the limiter or of the detector for identity a.
OperationOn(a) ==
    \/ \E p \in Insts, connOk \in BOOLEAN, cmdOk \in BOOLEAN :
            CheckIncr(p, a, connOk, cmdOk)
    \/ \E p \in Insts, cmdOk \in BOOLEAN : pkey[p] = a /\ CheckExpire(p, cmdOk)
    \/ \E p \in Insts, connOk \in BOOLEAN, cmdOk \in BOOLEAN :
            ResetRateLimit(p, a, connOk, cmdOk)
    \/ \E failAt \in 0..3 : CheckConnection(a, failAt)
    \/ \E size \in Sizes, failAt \in 0..5 : CheckRequest(a, size, failAt)
    \/ \E failAt \in 0..5 : ResetDetection(a, failAt)

C32_LoopSleepsUnlocked ==
    lpc = "sleep" =>
        /\ "loop" \notin rwRead
        /\ "loop" \notin mutex
        /\ rwRead \subseteq Callers

\* A request reads the table while the loop sleeps.
C32_Witness == lpc = "sleep" /\ \E c \in Callers : cpc[c] = "reading"

\* C33: after the shutdown signal no iteration of the loop starts, and the
\* shutdown does not cut an iteration in flight short.
C33_GracefulCancel == ~lnote.late /\ ~lnote.cut

\* C34: load_rules over a malformed rule set returns an error and leaves the
\* table, the store, the limiter and the detector as they were; an engine
\* nothing was added to then has an empty table and evaluates to no actions.
C34_MalformedLoadKeepsTable ==
    /\ [][((\E failAt \in 0..2 : LoadRules(failAt)) /\ Malformed(rkey))
            => /\ reLast'.fail
               /\ rules' = rules
               /\ UNCHANGED <<rkey, storeVars, limVars, detVars>>]_vars
    /\ []((Malformed(rkey) /\ active = EmptyTable)
            => /\ rules = EmptyTable
               /\ reLast.op = "eval" => reLast.acts = <<>>)

\* load_rules failed on a malformed rule set while the table held a rule.
C34_Witness ==
    /\ reLast.op = "load"
    /\ reLast.fail
    /\ Malformed(rkey)
    /\ rules # EmptyTable

\* C38: the background loop does not end by itself: process_rules never
\* returns.
C38_LoopNeverStops == lpc # "stopped"

====
